---- MODULE Spec2Model ----
(***************************************************************************)
(* csv2png.py: a CSV file is read into a DataFrame, every column is        *)
(* rewritten into display strings (convert_numbers) and the table is       *)
(* handed to the image exporter.                                           *)
(*                                                                         *)
(* Strings are sequences of one-character strings.  A cell is a record     *)
(* [kind, n, s]:                                                           *)
(*   kind = "str"    a Python str, s holds its characters                  *)
(*   kind = "nan"    the float NaN read_csv puts into an empty field       *)
(*   kind = "none"   Python None                                           *)
(*   kind = "int"    a Python int n                                        *)
(*   kind = "float"  a Python float of value n / 10^FracScale              *)
(***************************************************************************)
EXTENDS Integers, Sequences, FiniteSets, TLC

\* ------------------------------------------------------------------ bounds
\* decimal places a float cell carries
FracScale == 2
\* most rows of a table
MaxRows == 2
\* most rows of a table read in a run of the whole program
MainRows == 1
\* most command-line arguments
MaxArgs == 2

\* ------------------------------------------------------- string helpers
RECURSIVE Pow10(_)
Pow10(k) == IF k <= 0 THEN 1 ELSE 10 * Pow10(k - 1)

Abs(n) == IF n < 0 THEN -n ELSE n

Digit(d) == <<"0", "1", "2", "3", "4", "5", "6", "7", "8", "9">>[d + 1]

\* decimal digits of a natural number, no sign, no leading zeros
RECURSIVE NatStr(_)
NatStr(n) == IF n < 10 THEN <<Digit(n)>> ELSE NatStr(n \div 10) \o <<Digit(n % 10)>>

\* the w low decimal digits of n, zero-padded on the left
RECURSIVE ZeroPad(_, _)
ZeroPad(n, w) == IF w <= 0 THEN <<>> ELSE ZeroPad(n \div 10, w - 1) \o <<Digit(n % 10)>>

\* the ',' option of format(): groups of three digits from the right
RECURSIVE GroupStr(_)
GroupStr(n) ==
    IF n < 1000 THEN NatStr(n) ELSE GroupStr(n \div 1000) \o <<",">> \o ZeroPad(n % 1000, 3)

\* str.rstrip('0')
RECURSIVE RStrip0(_)
RStrip0(s) ==
    IF Len(s) > 0 /\ s[Len(s)] = "0" THEN RStrip0(SubSeq(s, 1, Len(s) - 1)) ELSE s

\* a width in a format spec: right-justify with spaces, never truncate
RECURSIVE PadLeft(_, _)
PadLeft(s, w) == IF Len(s) >= w THEN s ELSE PadLeft(<<" ">> \o s, w)

\* '.' in value
HasDot(s) == \E i \in 1..Len(s) : s[i] = "."

\* index of the first '.' at or after position from, Len(s) + 1 when there is none
RECURSIVE DotFrom(_, _)
DotFrom(s, from) ==
    IF from > Len(s) THEN Len(s) + 1
    ELSE IF s[from] = "." THEN from ELSE DotFrom(s, from + 1)

\* value.split('.')[1] for a value that holds a '.'
SplitDot1(s) == SubSeq(s, DotFrom(s, 1) + 1, DotFrom(s, DotFrom(s, 1) + 1) - 1)

\* str.removesuffix(suffix)
RemoveSuffix(s, suffix) ==
    IF Len(suffix) > 0 /\ Len(s) >= Len(suffix)
       /\ SubSeq(s, Len(s) - Len(suffix) + 1, Len(s)) = suffix
    THEN SubSeq(s, 1, Len(s) - Len(suffix))
    ELSE s

\* ------------------------------------------------------------------ cells
StrCell(s) == [kind |-> "str", n |-> 0, s |-> s]
NanCell == [kind |-> "nan", n |-> 0, s |-> <<>>]
NoneCell == [kind |-> "none", n |-> 0, s |-> <<>>]
IntCell(n) == [kind |-> "int", n |-> n, s |-> <<>>]
FloatCell(n) == [kind |-> "float", n |-> n, s |-> <<>>]

\* repr of a float n / 10^FracScale: shortest decimal, at least one fractional digit
FloatStr(n) ==
    LET frac == RStrip0(ZeroPad(Abs(n) % Pow10(FracScale), FracScale))
    IN (IF n < 0 THEN <<"-">> ELSE <<>>)
       \o NatStr(Abs(n) \div Pow10(FracScale)) \o <<".">>
       \o (IF frac = <<>> THEN <<"0">> ELSE frac)

\* Series.astype(str) on one cell
AsTypeStr(c) ==
    CASE c.kind = "str" -> c.s
      [] c.kind = "nan" -> <<"n", "a", "n">>
      [] c.kind = "none" -> <<"N", "o", "n", "e">>
      [] c.kind = "int" -> (IF c.n < 0 THEN <<"-">> ELSE <<>>) \o NatStr(Abs(c.n))
      [] c.kind = "float" -> FloatStr(c.n)

\* ------------------------------------------------------- value_to_string
na_str == <<"&", "e", "m", "p", "t", "y", ";">>

Ok(s) == [ok |-> TRUE, s |-> s]
ValueError == [ok |-> FALSE, s |-> <<"V", "a", "l", "u", "e", "E", "r", "r", "o", "r">>]

RECURSIVE Pow5(_)
Pow5(k) == IF k <= 0 THEN 1 ELSE 5 * Pow5(k - 1)

\* 2^e modulo m
RECURSIVE Pow2Mod(_, _)
Pow2Mod(e, m) == IF e <= 0 THEN 1 % m ELSE (2 * Pow2Mod(e - 1, m)) % m

\* the e with 2^e <= mag / 10^FracScale < 2^(e + 1), for mag >= 10^FracScale; p is
\* 10^FracScale * 2^e
RECURSIVE Log2Up(_, _, _)
Log2Up(mag, p, e) == IF p <= mag \div 2 THEN Log2Up(mag, 2 * p, e + 1) ELSE e

\* the same e, negative, for 0 < mag < 10^FracScale; m is mag * 2^(-e)
RECURSIVE Log2Down(_, _)
Log2Down(m, e) == IF m >= Pow10(FracScale) THEN e ELSE Log2Down(2 * m, e - 1)

\* The float that stands for mag / 10^FracScale is the nearest number of 53 significant
\* bits: 0 when it is that decimal exactly, -1 when it lies below it, 1 when above.
\* With e the binary exponent, mag / 10^FracScale * 2^(52 - e) has the fractional part
\* (mag * 2^(52 - e - FracScale) mod 5^FracScale) / 5^FracScale, which decides the
\* direction the 53-bit rounding took.
BinaryError(mag) ==
    LET m5 == Pow5(FracScale)
        e == IF mag >= Pow10(FracScale) THEN Log2Up(mag, Pow10(FracScale), 0)
             ELSE Log2Down(mag, 0)
        rho == ((mag % m5) * Pow2Mod(52 - e - FracScale, m5)) % m5
    IN IF mag = 0 \/ rho = 0 THEN 0 ELSE IF 2 * rho < m5 THEN -1 ELSE 1

\* the digits format(value, '.<d>f') keeps, as a number: the float's exact binary value
\* times 10^d, rounded to the nearest integer, an exact tie to the even one.  scaled is
\* the decimal the float was read from, times 10^FracScale; a decimal digit string that
\* ends in 5 at the cut is a tie only when the float equals the decimal.  Digits past
\* FracScale are zeros (the float gives back a decimal of up to 15 significant digits).
RoundedDigits(scaled, d) ==
    LET mag == Abs(scaled)
        drop == FracScale - d
    IN IF drop <= 0 THEN mag * Pow10(-drop)
       ELSE LET t == mag \div Pow10(drop)
                r == mag % Pow10(drop)
                half == 5 * Pow10(drop - 1)
                up == \/ r > half
                      \/ r = half /\ BinaryError(mag) > 0
                      \/ r = half /\ BinaryError(mag) = 0 /\ t % 2 = 1
            IN IF up THEN t + 1 ELSE t

\* format(value, '.<d>f'): FormatFixed with the ',' of the format spec left out
FormatFixed_ungrouped(scaled, d) ==
    (IF scaled < 0 THEN <<"-">> ELSE <<>>)
    \o NatStr(RoundedDigits(scaled, d) \div Pow10(d))
    \o (IF d = 0 THEN <<>> ELSE <<".">> \o ZeroPad(RoundedDigits(scaled, d) % Pow10(d), d))

\* format(value, ',.<d>f'): scaled is the value times 10^FracScale
FormatFixed(scaled, d) ==
    (IF scaled < 0 THEN <<"-">> ELSE <<>>)
    \o GroupStr(RoundedDigits(scaled, d) \div Pow10(d))
    \o (IF d = 0 THEN <<>> ELSE <<".">> \o ZeroPad(RoundedDigits(scaled, d) % Pow10(d), d))

\* format(value, '<w>d'): an int is right-justified, a float has no 'd' format
FormatD(c, w) ==
    IF c.kind = "int" THEN Ok(PadLeft(AsTypeStr(c), w)) ELSE ValueError

\* value_to_string without the isinstance test of line 34: isnan() of a str raises
value_to_string_no_str_test(value, digits) ==
    IF value.kind = "str" THEN ValueError
    ELSE IF value.kind = "none" \/ value.kind = "nan" THEN Ok(na_str)
    ELSE IF digits < 0 THEN FormatD(value, -digits)
    ELSE Ok(FormatFixed(IF value.kind = "int" THEN value.n * Pow10(FracScale) ELSE value.n, digits))

\* value_to_string with the test of line 38 ahead of the null test of line 36
value_to_string_null_test_late(value, digits) ==
    IF value.kind = "str" THEN Ok(value.s)
    ELSE IF digits < 0 THEN FormatD(value, -digits)
    ELSE IF value.kind = "none" \/ value.kind = "nan" THEN Ok(na_str)
    ELSE Ok(FormatFixed(IF value.kind = "int" THEN value.n * Pow10(FracScale) ELSE value.n, digits))

value_to_string(value, digits) ==
    IF value.kind = "str" THEN Ok(value.s)
    ELSE IF value.kind = "none" \/ value.kind = "nan" THEN Ok(na_str)
    ELSE IF digits < 0 THEN FormatD(value, -digits)
    ELSE IF digits = 0
         THEN Ok(FormatFixed(IF value.kind = "int" THEN value.n * Pow10(FracScale) ELSE value.n, 0))
    ELSE Ok(FormatFixed(IF value.kind = "int" THEN value.n * Pow10(FracScale) ELSE value.n, digits))

\* ------------------------------------------------- fraction digit counting
count_fraction_digits(value) ==
    IF value = <<"n", "a", "n">> THEN 0
    ELSE IF HasDot(value) THEN Len(RStrip0(SplitDot1(value)))
    ELSE 0

RECURSIVE SeqMax(_)
SeqMax(s) == IF Len(s) = 1 THEN s[1]
             ELSE LET m == SeqMax(Tail(s)) IN IF s[1] >= m THEN s[1] ELSE m

\* get_max_fraction_digits counting by way of float(value): a string that is no number
\* raises
get_max_fraction_digits_parsing(series) ==
    IF Len(series) = 0
       \/ \E i \in 1..Len(series) :
             /\ series[i] # <<"n", "a", "n">>
             /\ \E k \in 1..Len(series[i]) :
                   series[i][k] \notin {"0", "1", "2", "3", "4", "5", "6", "7", "8", "9", ".", "-"}
    THEN [ok |-> FALSE, d |-> 0]
    ELSE [ok |-> TRUE, d |-> SeqMax([i \in 1..Len(series) |-> count_fraction_digits(series[i])])]

\* max(series.apply(count_fraction_digits)): max() of no values raises ValueError
get_max_fraction_digits(series) ==
    IF Len(series) = 0 THEN [ok |-> FALSE, d |-> 0]
    ELSE [ok |-> TRUE, d |-> SeqMax([i \in 1..Len(series) |-> count_fraction_digits(series[i])])]

is_session_column(name) == name \in {"SESSION_ID"}

\* ---------------------------------------------------------------- tables
\* a DataFrame: column names and, aligned with them, the columns' cells
EmptyDF == [names |-> <<>>, cols |-> <<>>]
NCols(t) == Len(t.names)
NRows(t) == IF NCols(t) = 0 THEN 0 ELSE Len(t.cols[1])

ColNames == {"SESSION_ID", "AMOUNT"}

\* the cells read_csv yields: an int64 column holds ints only, a float64 column floats
\* and NaN, an object column strings and NaN
IntValues == {IntCell(123), IntCell(-1234567)}
FloatValues == {FloatCell(-25), FloatCell(123450), FloatCell(200000)}
StrValues == {StrCell(<<"x">>), StrCell(<<"1", ".", "5", "0">>)}

ColumnsOf(r) ==
    [1..r -> IntValues]
    \cup [1..r -> FloatValues \cup {NanCell}]
    \cup {c \in [1..r -> StrValues \cup {NanCell}] : r = 0 \/ \E i \in 1..r : c[i].kind = "str"}

\* column names are unique (read_csv renames duplicates)
Headers == {h \in UNION {[1..k -> ColNames] : k \in 1..Cardinality(ColNames)} :
               \A i, j \in 1..Len(h) : h[i] = h[j] => i = j}

TablesUpTo(maxRows) ==
    UNION {{[names |-> h, cols |-> c] : c \in [1..Len(h) -> ColumnsOf(r)]} :
              h \in Headers, r \in 0..maxRows}

\* ------------------------------------------------------- convert_numbers
\* line 85: the digits of one column
ColumnDigits(name, column) ==
    IF is_session_column(name) THEN [ok |-> TRUE, d |-> -18]
    ELSE get_max_fraction_digits([i \in 1..Len(column) |-> AsTypeStr(column[i])])

\* ApplyColumn with the exception of a cell swallowed and the cell left as it is
ApplyColumn_lenient(column, d) ==
    LET res == [i \in 1..Len(column) |-> value_to_string(column[i], d)]
    IN [ok |-> TRUE,
        row |-> 0,
        col |-> [i \in 1..Len(column) |-> IF res[i].ok THEN StrCell(res[i].s) ELSE column[i]]]

\* lines 87-89, Series.apply: the new column, or the first cell's exception
ApplyColumn(column, d) ==
    LET res == [i \in 1..Len(column) |-> value_to_string(column[i], d)]
        bad == {i \in 1..Len(column) : ~res[i].ok}
    IN [ok |-> bad = {},
        row |-> IF bad = {} THEN 0 ELSE CHOOSE i \in bad : \A j \in bad : i <= j,
        col |-> [i \in 1..Len(column) |-> IF res[i].ok THEN StrCell(res[i].s) ELSE column[i]]]

\* AssignColumn writing the new column over column c and every column after it
AssignColumn_onwards(t, c, column) ==
    [t EXCEPT !.cols = [k \in 1..Len(t.cols) |-> IF k >= c THEN column ELSE t.cols[k]]]

\* line 87, df[col] = ...
AssignColumn(t, c, column) == [t EXCEPT !.cols[c] = column]

\* ------------------------------------------------------------- __main__
Csv == <<".", "c", "s", "v">>
Png == <<".", "p", "n", "g">>
FileNames == {<<"a">> \o Csv, <<"b">>, <<"-", "h">>, <<"-", "-", "h", "e", "l", "p">>}
HelpFlags == {<<"-", "h">>, <<"-", "-", "h", "e", "l", "p">>}

ProgramName == <<"c", "s", "v", "2", "p", "n", "g">>

\* HelpRequested looking for the flags in every argument
HelpRequested_anywhere(a) == Len(a) = 1 \/ \E i \in 2..Len(a) : a[i] \in HelpFlags

\* InputFiles without the [1:] slice
InputFiles_unsliced(a) == a

\* line 114: len(argv) == 1 or argv[1] in ('-h', '--help',)
HelpRequested(a) == Len(a) = 1 \/ a[2] \in HelpFlags

\* line 118: argv[1:]
InputFiles(a) == Tail(a)

\* line 121
OutputName(csv_file) == RemoveSuffix(csv_file, Csv) \o Png

ErrRead == "read_csv failed"
ErrMax == "ValueError: max() arg is an empty sequence"
ErrFormat == "ValueError: Unknown format code 'd' for object of type 'float'"
ErrRender == "dfi_export failed"

VARIABLES
    argv,       \* sys.argv, the program name first
    pc,         \* "start", "call", "infer", "rewrite", "exit"
    fileIdx,    \* position in argv[1:] of the file csv_to_png works on
    df,         \* the DataFrame of the running csv_to_png
    orig,       \* df as it was when convert_numbers was entered
    col,        \* position of convert_numbers' loop in df.columns
    digits,     \* convert_numbers' local digits
    printed,    \* the (column, digits) lines convert_numbers printed for this df
    attempts,   \* the csv_to_png calls made: input and output name
    rendered,   \* dfi_export calls made: file position, and whether all cells were str
    written,    \* file positions whose output image dfi_export wrote
    error,      \* the uncaught exception, "" when there is none
    errRow,     \* the row of the cell whose conversion raised it, else 0
    usage,      \* usage() was printed
    pass        \* which run of convert_numbers over df this is

vars == <<argv, pc, fileIdx, df, orig, col, digits, printed, attempts, rendered, written,
          error, errRow, usage, pass>>

AllStrings(t) == \A c \in 1..NCols(t) : \A i \in 1..Len(t.cols[c]) : t.cols[c][i].kind = "str"

\* lines 84-86: the head of the loop body
InferPolicy ==
    /\ pc = "infer"
    /\ col <= NCols(df)
    /\ LET r == ColumnDigits(df.names[col], df.cols[col])
       IN IF r.ok
          THEN /\ digits' = r.d
               /\ printed' = Append(printed, <<df.names[col], r.d>>)
               /\ pc' = "rewrite"
               /\ error' = error
          ELSE /\ error' = ErrMax
               /\ pc' = "exit"
               /\ UNCHANGED <<digits, printed>>
    /\ UNCHANGED <<argv, fileIdx, df, orig, col, attempts, rendered, written, errRow, usage, pass>>

\* lines 87-89: every cell of the column, then the assignment
RewriteColumn ==
    /\ pc = "rewrite"
    /\ LET r == ApplyColumn(df.cols[col], digits)
       IN IF r.ok
          THEN /\ df' = AssignColumn(df, col, r.col)
               /\ col' = col + 1
               /\ pc' = "infer"
               /\ UNCHANGED <<error, errRow>>
          ELSE /\ error' = ErrFormat
               /\ errRow' = r.row
               /\ pc' = "exit"
               /\ UNCHANGED <<df, col>>
    /\ UNCHANGED <<argv, fileIdx, orig, digits, printed, attempts, rendered, written, usage, pass>>

\* lines 114-118
Main ==
    /\ pc = "start"
    /\ IF HelpRequested(argv)
       THEN /\ usage' = TRUE
            /\ pc' = "exit"
            /\ fileIdx' = fileIdx
       ELSE /\ fileIdx' = 1
            /\ pc' = "call"
            /\ usage' = usage
    /\ UNCHANGED <<argv, df, orig, col, digits, printed, attempts, rendered, written, error,
                   errRow, pass>>

\* lines 119-121 and 99: the call and a read_csv that returns a table
ReadCsv ==
    /\ pc = "call"
    /\ attempts' = Append(attempts, [input |-> InputFiles(argv)[fileIdx],
                                     output |-> OutputName(InputFiles(argv)[fileIdx])])
    /\ \E t \in TablesUpTo(MainRows) :
          /\ df' = t
          /\ orig' = t
    /\ col' = 1
    /\ printed' = <<>>
    /\ pc' = "infer"
    /\ UNCHANGED <<argv, fileIdx, digits, rendered, written, error, errRow, usage, pass>>

\* lines 119-121 and 99: the call and a read_csv that raises
ReadCsvFails ==
    /\ pc = "call"
    /\ attempts' = Append(attempts, [input |-> InputFiles(argv)[fileIdx],
                                     output |-> OutputName(InputFiles(argv)[fileIdx])])
    /\ error' = ErrRead
    /\ pc' = "exit"
    /\ UNCHANGED <<argv, fileIdx, df, orig, col, digits, printed, rendered, written, errRow,
                   usage, pass>>

\* lines 106-110 and 118: dfi_export writes the image, the loop goes on
Render ==
    /\ pc = "infer"
    /\ col > NCols(df)
    /\ rendered' = rendered \cup {[idx |-> fileIdx, strings |-> AllStrings(df)]}
    /\ written' = written \cup {fileIdx}
    /\ IF fileIdx < Len(InputFiles(argv))
       THEN /\ fileIdx' = fileIdx + 1
            /\ pc' = "call"
            /\ df' = EmptyDF
            /\ orig' = EmptyDF
            /\ printed' = <<>>
       ELSE /\ pc' = "exit"
            /\ UNCHANGED <<fileIdx, df, orig, printed>>
    /\ UNCHANGED <<argv, col, digits, attempts, error, errRow, usage, pass>>

\* lines 106-110: dfi_export raises, with or without an image left behind
RenderFails ==
    /\ pc = "infer"
    /\ col > NCols(df)
    /\ rendered' = rendered \cup {[idx |-> fileIdx, strings |-> AllStrings(df)]}
    /\ written' \in {written, written \cup {fileIdx}}
    /\ error' = ErrRender
    /\ pc' = "exit"
    /\ UNCHANGED <<argv, fileIdx, df, orig, col, digits, printed, attempts, errRow, usage, pass>>

\* every command line of at most MaxArgs arguments
ArgLists == {<<ProgramName>> \o a : a \in UNION {[1..k -> FileNames] : k \in 0..MaxArgs}}

Init ==
    /\ argv \in ArgLists
    /\ pc = "start"
    /\ fileIdx = 0
    /\ df = EmptyDF
    /\ orig = EmptyDF
    /\ col = 1
    /\ digits = 0
    /\ printed = <<>>
    /\ attempts = <<>>
    /\ rendered = {}
    /\ written = {}
    /\ error = ""
    /\ errRow = 0
    /\ usage = FALSE
    /\ pass = 1

Next ==
    \/ Main
    \/ ReadCsv
    \/ ReadCsvFails
    \/ InferPolicy
    \/ RewriteColumn
    \/ Render
    \/ RenderFails

\* the program: every command line, every file content
Spec == Init /\ [][Next]_vars

\* -------------------------------------------- convert_numbers on its own
\* convert_numbers returned and is called again on the same DataFrame
Rerun ==
    /\ pc = "infer"
    /\ col > NCols(df)
    /\ pass = 1
    /\ pass' = 2
    /\ orig' = df
    /\ col' = 1
    /\ printed' = <<>>
    /\ UNCHANGED <<argv, pc, fileIdx, df, digits, attempts, rendered, written, error, errRow,
                   usage>>

\* the second run returned
Return ==
    /\ pc = "infer"
    /\ col > NCols(df)
    /\ pass = 2
    /\ pc' = "exit"
    /\ UNCHANGED <<argv, fileIdx, df, orig, col, digits, printed, attempts, rendered, written,
                   error, errRow, usage, pass>>

InitConv ==
    /\ argv = <<ProgramName>>
    /\ pc = "infer"
    /\ fileIdx = 0
    /\ df \in TablesUpTo(MaxRows)
    /\ orig = df
    /\ col = 1
    /\ digits = 0
    /\ printed = <<>>
    /\ attempts = <<>>
    /\ rendered = {}
    /\ written = {}
    /\ error = ""
    /\ errRow = 0
    /\ usage = FALSE
    /\ pass = 1

NextConv ==
    \/ InferPolicy
    \/ RewriteColumn
    \/ Rerun
    \/ Return

\* convert_numbers applied to every table, twice
SpecConv == InitConv /\ [][NextConv]_vars

\* ------------------------------------------------------------------ claims
IsNull(c) == c.kind \in {"nan", "none"}
IsNumber(c) == c.kind \in {"int", "float"}
IsDigitChar(ch) == ch \in {"0", "1", "2", "3", "4", "5", "6", "7", "8", "9"}

\* the columns the running convert_numbers has rewritten
Rewritten == {c \in 1..NCols(df) : c < col}

\* the digits convert_numbers printed for column c
PrintedDigits(c) == printed[c][2]

\* the per-value count as the specification words it: what follows the decimal point,
\* trailing zeros dropped
StatedCount(s) ==
    IF s = <<"n", "a", "n">> \/ ~HasDot(s) THEN 0
    ELSE Len(RStrip0(SubSeq(s, DotFrom(s, 1) + 1, Len(s))))

\* the column's digit count as the specification words it: the largest count, 0 when
\* nothing exceeds it
StatedDigits(column) ==
    LET counts == {StatedCount(AsTypeStr(column[i])) : i \in 1..Len(column)}
    IN IF counts = {} THEN 0 ELSE CHOOSE m \in counts : \A k \in counts : k <= m

StatedPolicy(name, column) == IF name = "SESSION_ID" THEN -18 ELSE StatedDigits(column)

\* C1: a cell that was a string when convert_numbers was entered holds the same string
\* after its column is rewritten, under every digit count, and it is never the cell
\* that makes the rewriting raise.
C1_StringCellsPassThrough ==
    /\ \A c \in Rewritten : \A i \in 1..Len(orig.cols[c]) :
          orig.cols[c][i].kind = "str" => df.cols[c][i] = orig.cols[c][i]
    /\ error = ErrFormat => df.cols[col][errRow].kind # "str"

\* C1 witness: a SESSION_ID column and a column of positive digit count, both holding
\* a string, have been rewritten.
C1_Witness ==
    /\ pass = 1 /\ pc = "infer" /\ col = 3
    /\ \E a, b \in 1..2 :
          /\ PrintedDigits(a) < 0 /\ PrintedDigits(b) > 0
          /\ \E i \in 1..NRows(orig) : orig.cols[a][i].kind = "str"
          /\ \E i \in 1..NRows(orig) : orig.cols[b][i].kind = "str"

\* C2: a cell that was NaN or None when convert_numbers was entered holds the
\* placeholder after its column is rewritten, in SESSION_ID columns as in the others,
\* and it is never the cell that makes the rewriting raise.
C2_NullCellsBecomePlaceholder ==
    /\ \A c \in Rewritten : \A i \in 1..Len(orig.cols[c]) :
          IsNull(orig.cols[c][i]) => df.cols[c][i] = StrCell(na_str)
    /\ error = ErrFormat => ~IsNull(df.cols[col][errRow])

\* C2 witness: a SESSION_ID column and a column of positive digit count, both holding
\* a NaN, have been rewritten.
C2_Witness ==
    /\ pass = 1 /\ pc = "infer" /\ col = 3
    /\ \E a, b \in 1..2 :
          /\ PrintedDigits(a) < 0 /\ PrintedDigits(b) > 0
          /\ \E i \in 1..NRows(orig) : IsNull(orig.cols[a][i])
          /\ \E i \in 1..NRows(orig) : IsNull(orig.cols[b][i])

\* C3: rewriting a SESSION_ID column never raises, and every int or float in it becomes
\* a string of exactly 18 characters with no thousands separator and no decimal point.
C3_SessionIdAlwaysRenders ==
    /\ ~(error = ErrFormat /\ is_session_column(df.names[col]))
    /\ pass = 1 =>
          \A c \in Rewritten : is_session_column(orig.names[c]) =>
             \A i \in 1..Len(orig.cols[c]) : IsNumber(orig.cols[c][i]) =>
                /\ df.cols[c][i].kind = "str"
                /\ Len(df.cols[c][i].s) = 18
                /\ \A k \in 1..Len(df.cols[c][i].s) : df.cols[c][i].s[k] \notin {",", "."}

\* C4: inference never raises, and the digits of a column other than SESSION_ID are the
\* largest per-value count of its original values, 0 for a column with no rows.
C4_DigitsAreColumnMaximum ==
    /\ error # ErrMax
    /\ (pc = "rewrite" /\ ~is_session_column(df.names[col])) =>
          digits = StatedDigits(orig.cols[col])

\* s is a fixed-point display string: an optional sign, an integer part in groups of
\* three separated by commas, and exactly d fractional digits (no point when d = 0)
FixedPointShape(s, d) ==
    LET body == IF Len(s) > 0 /\ s[1] = "-" THEN Tail(s) ELSE s
        dot == DotFrom(body, 1)
        ip == SubSeq(body, 1, dot - 1)
        fp == SubSeq(body, dot + 1, Len(body))
    IN /\ Len(ip) >= 1
       /\ ip[1] # ","
       /\ \A k \in 1..Len(ip) :
             IF (Len(ip) - k + 1) % 4 = 0 THEN ip[k] = "," ELSE IsDigitChar(ip[k])
       /\ IF d = 0 THEN dot = Len(body) + 1
          ELSE /\ dot <= Len(body)
               /\ Len(fp) = d
               /\ \A k \in 1..Len(fp) : IsDigitChar(fp[k])

C6_SecondRunChangesNothing ==
    pass = 2 => (error = "" /\ df = orig)

\* C6 witness: the second run is through a table that holds a thousands-separated
\* string, the placeholder and a padded SESSION_ID string.
C6_Witness ==
    /\ pass = 2 /\ pc = "exit" /\ NCols(df) = 2
    /\ \E c \in 1..2, i \in 1..NRows(df) : df.cols[c][i] = StrCell(na_str)
    /\ \E c \in 1..2, i \in 1..NRows(df) : \E k \in 1..Len(df.cols[c][i].s) :
          df.cols[c][i].s[k] = ","
    /\ \E c \in 1..2, i \in 1..NRows(df) :
          /\ is_session_column(df.names[c])
          /\ Len(df.cols[c][i].s) = 18

\* C7 as stated: when the run is over (no usage text), every file was attempted.
C7_EveryFileAttempted ==
    (pc = "exit" /\ ~usage) => Len(attempts) = Len(InputFiles(argv))

\* C7 amended: files are attempted one at a time in argument order; a run without
\* error attempts them all; an error ends the run at the file it happened in, and no
\* later file is attempted.
C7_AttemptsStopAtFirstFailure ==
    /\ Len(attempts) <= Len(argv) - 1
    /\ \A i \in 1..Len(attempts) : attempts[i].input = argv[i + 1]
    /\ Len(attempts) = IF pc = "call" THEN fileIdx - 1 ELSE fileIdx
    /\ (pc = "exit" /\ ~usage /\ error = "") => Len(attempts) = Len(argv) - 1
    /\ \A i \in 1..Len(attempts) : i < fileIdx => i \in written

\* C7 witness: the run ended with an error in the first of two files.
C7_Witness ==
    /\ pc = "exit" /\ error # ""
    /\ Len(argv) = 3
    /\ Len(attempts) = 1

\* C8: no dfi_export call and no image for a file whose read_csv or convert_numbers
\* raised; every table handed to dfi_export holds strings only, and images come from
\* dfi_export calls only.
C8_NoRenderForFailedFile ==
    /\ (pc = "exit" /\ error \in {ErrRead, ErrMax, ErrFormat}) =>
          /\ \A r \in rendered : r.idx # fileIdx
          /\ fileIdx \notin written
    /\ \A r \in rendered : r.strings
    /\ written \subseteq {r.idx : r \in rendered}

\* C8 witness: the first file was rendered and a cell of the second could not be
\* formatted.
C8_Witness ==
    /\ pc = "exit" /\ error = ErrFormat
    /\ fileIdx = 2
    /\ 1 \in written

\* the output name as the specification words it
StatedOutput(name) ==
    IF Len(name) >= 4 /\ SubSeq(name, Len(name) - 3, Len(name)) = <<".", "c", "s", "v">>
    THEN SubSeq(name, 1, Len(name) - 4) \o <<".", "p", "n", "g">>
    ELSE name \o <<".", "p", "n", "g">>

\* C9 as stated: a run with no argument, or with -h or --help among its arguments, ends
\* with the usage text printed, status 0 and no file read or rendered; every other run
\* ends with every argument taken in turn as the input of a conversion whose output
\* name is the input with a trailing .csv replaced by .png (or .png appended).
C9_HelpElseEveryArgumentConverted ==
    pc = "exit" =>
       IF Len(argv) = 1
          \/ \E i \in 2..Len(argv) : argv[i] \in {<<"-", "h">>, <<"-", "-", "h", "e", "l", "p">>}
       THEN /\ usage /\ error = ""
            /\ attempts = <<>> /\ rendered = {} /\ written = {}
       ELSE /\ ~usage
            /\ Len(attempts) = Len(argv) - 1
            /\ \A i \in 1..Len(attempts) :
                  attempts[i] = [input |-> argv[i + 1], output |-> StatedOutput(argv[i + 1])]

\* C9 amended: with no argument, or -h or --help as the first one, the program prints
\* the usage text and exits with status 0 and no file is read, normalised or rendered;
\* otherwise no usage text is printed and the arguments (a later -h or --help among
\* them) are taken in turn as the inputs of conversions whose output name is the input
\* with a trailing .csv replaced by .png (or .png appended); a run without error
\* converts every argument, and an error ends the run at the argument it happened in,
\* the earlier ones converted and the later ones never taken up.
C9_HelpFirstElseConvertUntilFailure ==
    /\ pc # "start" =>
          (usage <=> (Len(argv) = 1 \/ argv[2] \in {<<"-", "h">>, <<"-", "-", "h", "e", "l", "p">>}))
    /\ usage =>
          /\ pc = "exit" /\ error = ""
          /\ attempts = <<>> /\ rendered = {} /\ written = {}
          /\ df = EmptyDF /\ printed = <<>>
    /\ \A i \in 1..Len(attempts) :
          /\ attempts[i].input = argv[i + 1]
          /\ attempts[i].output = StatedOutput(argv[i + 1])
    /\ (pc = "exit" /\ ~usage /\ error = "") =>
          /\ Len(attempts) = Len(argv) - 1
          /\ written = 1..(Len(argv) - 1)
    /\ (pc = "exit" /\ error # "") =>
          /\ ~usage
          /\ Len(attempts) = fileIdx
          /\ 1..(fileIdx - 1) \subseteq written
          /\ \A i \in 1..(Len(argv) - 1) : i > fileIdx => i \notin written

\* C9 witness: a run that converted a.csv to a.png and then the file named -h.
C9_Witness ==
    /\ pc = "exit" /\ error = "" /\ ~usage
    /\ Len(attempts) = 2
    /\ attempts[1] = [input |-> <<"a", ".", "c", "s", "v">>, output |-> <<"a", ".", "p", "n", "g">>]
    /\ attempts[2].input = <<"-", "h">>

\* C10: the policy of a column is computed once, from the values the column had when
\* convert_numbers was entered, and until then the column holds those values: the
\* rewriting of earlier columns leaves later columns alone.
C10_PolicyFromOriginalValues ==
    /\ \A c \in 1..NCols(df) : c >= col => df.cols[c] = orig.cols[c]
    /\ pc = "rewrite" => digits = StatedPolicy(orig.names[col], orig.cols[col])
    /\ pc \in {"infer", "rewrite"} =>
          Len(printed) = (col - 1) + (IF pc = "rewrite" THEN 1 ELSE 0)
    /\ \A k \in 1..Len(printed) :
          printed[k] = <<orig.names[k], StatedPolicy(orig.names[k], orig.cols[k])>>

\* C10 witness: the first column has been rewritten and changed, and the policy of the
\* second, a positive digit count, is computed.
C10_Witness ==
    /\ pass = 1 /\ pc = "rewrite" /\ col = 2
    /\ df.cols[1] # orig.cols[1]
    /\ digits > 0
====
